---- MODULE Spec2Model ----
(***************************************************************************)
(* Model of the outbound-call logging interceptors of aks-middleware:      *)
(*   policy.LoggingPolicy.Do              (src/policy/policy.go)           *)
(*   restlogger.LoggingRoundTripper.RoundTrip (src/restlogger/restlogger.go)*)
(*                                                                         *)
(* Strings are sequences of tokens.  A token stands for a run of           *)
(* characters that the code never looks inside: "/", "?", "=", "&" are the *)
(* separators, every other token is a word.  No word of the alphabet is a  *)
(* substring of another word, so Go's substring test strings.Contains is   *)
(* the contiguous-subsequence test on tokens, and words that differ only   *)
(* in casing ("storageAccounts", "storageaccounts") are different tokens.  *)
(***************************************************************************)
EXTENDS Integers, Sequences, FiniteSets, TLC

VARIABLES sink, calls

vars == <<sink, calls>>

\* ------------------------------------------------------------------ bounds

\* Number of interceptor invocations in one behaviour (Spec)
MaxCalls == 2
\* Number of path segments after /subscriptions/s (SpecClassify)
MaxTail == 2
\* Number of query parameters of a request URL (SpecClassify)
MaxParams == 3

\* ----------------------------------------------------------------- strings

\* the empty string; also a nil error
Empty == <<>>

\* strings.Contains(s, sub)
Contains(s, sub) ==
  \E i \in 0..(Len(s) - Len(sub)) : SubSeq(s, i + 1, i + Len(sub)) = sub

\* strings.ContainsAny(s, chars)
ContainsAny(s, chars) == \E i \in 1..Len(s) : s[i] \in chars

\* strings.IndexAny(s, chars): 0-based index of the first token in chars, or -1
IndexAny(s, chars) ==
  IF ContainsAny(s, chars)
  THEN (CHOOSE i \in 1..Len(s) :
          /\ s[i] \in chars
          /\ \A j \in 1..(i - 1) : s[j] \notin chars) - 1
  ELSE -1

\* strings.Split(s, sep) for a one-token separator
RECURSIVE Split(_, _)
Split(s, sep) ==
  LET i == IndexAny(s, {sep})
  IN IF i = -1 THEN <<s>>
     ELSE <<SubSeq(s, 1, i)>> \o Split(SubSeq(s, i + 2, Len(s)), sep)

\* ------------------------------------------------------------ net/url

\* url.QueryEscape on one token: " " becomes "+", "$" becomes "%24"
QueryEscapeTok(t) ==
  CASE t = "a b"     -> "a+b"
    [] t = "$filter" -> "%24filter"
    [] OTHER         -> t

\* url.QueryUnescape on one token: "+" and "%20" both decode to " "
QueryUnescapeTok(t) ==
  CASE t = "a+b"       -> "a b"
    [] t = "a%20b"     -> "a b"
    [] t = "%24filter" -> "$filter"
    [] OTHER           -> t

QueryEscape(s) == [i \in 1..Len(s) |-> QueryEscapeTok(s[i])]
QueryUnescape(s) == [i \in 1..Len(s) |-> QueryUnescapeTok(s[i])]

\* the host as URL.String() writes it: a space is written %20
EscapeHost(h) == [i \in 1..Len(h) |-> IF h[i] = "bad host" THEN "bad%20host" ELSE h[i]]

\* URL.String(): scheme://host/path?rawquery ("?" only with a non-empty query)
URLString(u) ==
  u.Scheme \o <<"/", "/">> \o EscapeHost(u.Host) \o u.Path
    \o (IF u.RawQuery # Empty THEN <<"?">> \o u.RawQuery ELSE Empty)

\* url.Parse(s): the query is what follows the first "?", the host what lies
\* between "//" and the next "/"; a %-escape in the host is an error
urlParse(s) ==
  LET q    == IndexAny(s, {"?"})
      rest == IF q = -1 THEN s ELSE SubSeq(s, 1, q)
      rawq == IF q = -1 THEN Empty ELSE SubSeq(s, q + 2, Len(s))
      auth == SubSeq(rest, 4, Len(rest))
      sl   == IndexAny(auth, {"/"})
      host == IF sl = -1 THEN auth ELSE SubSeq(auth, 1, sl)
      path == IF sl = -1 THEN Empty ELSE SubSeq(auth, sl + 1, Len(auth))
  IN IF Contains(host, <<"bad%20host">>)
     THEN [err |-> <<"invalid URL escape">>,
           url |-> [Scheme |-> Empty, Host |-> Empty, Path |-> Empty, RawQuery |-> Empty]]
     ELSE [err |-> Empty,
           url |-> [Scheme |-> SubSeq(rest, 1, 1), Host |-> host,
                    Path |-> path, RawQuery |-> rawq]]

\* one "key=value" pair of a raw query, decoded
ParsePair(p) ==
  LET e == IndexAny(p, {"="})
  IN [key |-> QueryUnescape(IF e = -1 THEN p ELSE SubSeq(p, 1, e)),
      val |-> QueryUnescape(IF e = -1 THEN Empty ELSE SubSeq(p, e + 2, Len(p)))]

\* URL.Query(): url.Values as a function from each key to its values in order
RECURSIVE AddPairs(_, _)
AddPairs(m, ps) ==
  IF ps = <<>> THEN m
  ELSE LET kv == ParsePair(Head(ps))
           m2 == IF kv.key = Empty THEN m
                 ELSE IF kv.key \in DOMAIN m
                      THEN [m EXCEPT ![kv.key] = Append(@, kv.val)]
                      ELSE (kv.key :> <<kv.val>>) @@ m
       IN AddPairs(m2, Tail(ps))

EmptyValues == [k \in {} |-> <<>>]

Query(u) ==
  IF u.RawQuery = Empty THEN EmptyValues
  ELSE AddPairs(EmptyValues, Split(u.RawQuery, "&"))

\* Values.Get(key): the first value, or ""
Get(m, key) == IF key \in DOMAIN m /\ m[key] # <<>> THEN m[key][1] ELSE Empty

\* Values.Set(key, value)
Set(m, key, value) == (key :> <<value>>) @@ m

\* the keys of the alphabet in byte order, as Values.Encode sorts them
SortedKeys == << <<"$filter">>, <<"api-version">>, <<"top">> >>

RECURSIVE JoinAmp(_)
JoinAmp(ps) ==
  IF ps = <<>> THEN Empty
  ELSE IF Len(ps) = 1 THEN ps[1]
  ELSE ps[1] \o <<"&">> \o JoinAmp(Tail(ps))

RECURSIVE PairsOf(_, _)
PairsOf(k, vs) ==
  IF vs = <<>> THEN <<>>
  ELSE << QueryEscape(k) \o <<"=">> \o QueryEscape(Head(vs)) >> \o PairsOf(k, Tail(vs))

RECURSIVE EncodeFrom(_, _)
EncodeFrom(m, ks) ==
  IF ks = <<>> THEN <<>>
  ELSE (IF Head(ks) \in DOMAIN m THEN PairsOf(Head(ks), m[Head(ks)]) ELSE <<>>)
         \o EncodeFrom(m, Tail(ks))

\* Values.Encode(): key=value pairs sorted by key, escaped, joined by "&"
Encode(m) == JoinAmp(EncodeFrom(m, SortedKeys))

\* ------------------------------------------------------- policy.go: trimURL

ApiVersionKey == <<"api-version">>

\* lines 152-157: remove every query parameter except api-version
DelOthers(query) == [k \in (DOMAIN query) \cap {ApiVersionKey} |-> query[k]]

\* a trimURL that forgets to remove the other parameters
trimURLKeepAll(parsedURL) ==
  LET query == Query(parsedURL)
  IN URLString([parsedURL EXCEPT
       !.RawQuery = Encode(Set(query, ApiVersionKey, Get(query, ApiVersionKey)))])

trimURL(parsedURL) ==
  LET query      == Query(parsedURL)
      apiVersion == Get(query, ApiVersionKey)
  IN URLString([parsedURL EXCEPT
       !.RawQuery = Encode(Set(DelOthers(query), ApiVersionKey, apiVersion))])

\* ------------------------------------- policy.go: classification in Do

resourceTypes ==
  << <<"resourcegroups">>, <<"storageAccounts">>,
     <<"operationresults">>, <<"asyncoperations">> >>

\* lines 50-56: 0-based index of the first segment containing "api-version", or -1
apiVersionIndex(splitPath) ==
  IF \E i \in 1..Len(splitPath) : Contains(splitPath[i], ApiVersionKey)
  THEN (CHOOSE i \in 1..Len(splitPath) :
          /\ Contains(splitPath[i], ApiVersionKey)
          /\ \A j \in 1..(i - 1) : ~Contains(splitPath[j], ApiVersionKey)) - 1
  ELSE -1

\* lines 60-66: the api-version segment itself, unless the segment before it
\* contains a vocabulary entry (the first such entry in table order)
matchResourceType(prev, cur) ==
  IF \E k \in 1..Len(resourceTypes) : Contains(prev, resourceTypes[k])
  THEN resourceTypes[CHOOSE k \in 1..Len(resourceTypes) :
         /\ Contains(prev, resourceTypes[k])
         /\ \A j \in 1..(k - 1) : ~Contains(prev, resourceTypes[j])]
  ELSE cur

\* lines 68-76: the GET suffix
getSuffix(method, rt) ==
  IF method = <<"GET">>
  THEN IF ContainsAny(rt, {"?", "/"})
       THEN SubSeq(rt, 1, IndexAny(rt, {"?", "/"})) \o <<" - LIST">>
       ELSE rt \o <<" - READ">>
  ELSE rt

\* lines 46-80
resourceType(method, trimmedURL) ==
  LET splitPath == Split(trimmedURL, "/")
      idx       == apiVersionIndex(splitPath)
  IN IF idx > 0
     THEN getSuffix(method, matchResourceType(splitPath[idx], splitPath[idx + 1]))
     ELSE trimmedURL

\* line 83: REST VERB + Resource Type
methodInfo(method, trimmedURL) == method \o <<" ">> \o resourceType(method, trimmedURL)

\* ------------------------------------------------------------ log/slog

\* a logger is the attributes it carries; Logger.With adds attributes
baseLogger == [k \in {} |-> Empty]

With(logger, attrs) == attrs @@ logger

\* lines 135-139 (GetDefaultArmClientOptions): the logger handed to NewLoggingPolicy
policyLogger ==
  With(baseLogger,
       ("source" :> <<"ApiAutoLog">>) @@ ("method_type" :> <<"unary">>)
         @@ ("protocol" :> <<"REST">>))

\* Logger.Error(msg, args...) and Logger.Info(msg): one record handed to the
\* sink, carrying the logger's attributes and those made from args
LogError(logger, msg, args) == [level |-> "Error", msg |-> msg, fields |-> args @@ logger]

NoArgs == [k \in {} |-> Empty]

\* an argument that is neither a key string nor an Attr is logged under "!BADKEY"
BadKey(value) == "!BADKEY" :> value

LogInfo(logger, msg) == [level |-> "Info", msg |-> msg, fields |-> logger]

\* http.Response.Status for the status codes of the model
Status(code) ==
  CASE code = 200 -> <<"200 OK">>
    [] code = 299 -> <<"299 ">>
    [] code = 300 -> <<"300 Multiple Choices">>
    [] OTHER      -> <<"404 Not Found">>

\* a nil *http.Response and a nil error
NilResp == <<>>

Response(code) == << [StatusCode |-> code, Status |-> Status(code)] >>

\* ------------------------------------------------- policy.go: LoggingPolicy.Do

\* lines 32-41: the request URL does not parse
DoParseError(logger, rawURL, parseErr) ==
  [log |-> << LogError(With(logger,
                 ("component" :> <<"client">>) @@ ("method" :> <<"ERROR">>)
                   @@ ("service" :> <<"ERROR">>) @@ ("url" :> rawURL)
                   @@ ("error" :> parseErr)),
               <<"Error parsing request URL: ">>, BadKey(parseErr)) >>,
   ret |-> [resp |-> NilResp, err |-> parseErr]]

\* lines 85-94: req.Next returned an error
DoTransportError(logger, mi, host, trimmedURL, err) ==
  [log |-> << LogError(With(logger,
                 ("component" :> <<"client">>) @@ ("method" :> mi)
                   @@ ("service" :> host) @@ ("url" :> trimmedURL)
                   @@ ("error" :> err)),
               <<"Error finishing request: ">>, BadKey(err)) >>,
   ret |-> [resp |-> NilResp, err |-> err]]

\* a Do that logs every finished call at Info and the non-2xx ones at Error too
DoFinishedTwice(logger, mi, host, trimmedURL, resp, latency) ==
  LET logEntry == With(logger,
                    ("code" :> resp[1].StatusCode) @@ ("component" :> <<"client">>)
                      @@ ("time_ms" :> latency) @@ ("method" :> mi)
                      @@ ("service" :> host) @@ ("url" :> trimmedURL))
  IN [log |-> IF 200 <= resp[1].StatusCode /\ resp[1].StatusCode < 300
              THEN << LogInfo(logEntry, <<"finished call">>) >>
              ELSE << LogInfo(logEntry, <<"finished call">>),
                      LogError(With(logEntry, "error" :> resp[1].Status),
                               <<"finished call">>, NoArgs) >>,
      ret |-> [resp |-> resp, err |-> Empty]]

\* lines 96-115: the exchange completed with a response
DoFinished(logger, mi, host, trimmedURL, resp, latency) ==
  LET logEntry == With(logger,
                    ("code" :> resp[1].StatusCode) @@ ("component" :> <<"client">>)
                      @@ ("time_ms" :> latency) @@ ("method" :> mi)
                      @@ ("service" :> host) @@ ("url" :> trimmedURL))
  IN [log |-> IF 200 <= resp[1].StatusCode /\ resp[1].StatusCode < 300
              THEN << LogInfo(logEntry, <<"finished call">>) >>
              ELSE << LogError(With(logEntry, "error" :> resp[1].Status),
                               <<"finished call">>, NoArgs) >>,
      ret |-> [resp |-> resp, err |-> Empty]]

\* lines 26-116: what Do logs and returns, given what req.Next returned
\* and the milliseconds elapsed since startTime
Do(logger, req, out, latency) ==
  LET rawURL == URLString(req.URL)
      parsed == urlParse(rawURL)
  IN IF parsed.err # Empty
     THEN DoParseError(logger, rawURL, parsed.err)
     ELSE LET trimmedURL == trimURL(parsed.url)
              mi         == methodInfo(req.Method, trimmedURL)
          IN IF out.err # Empty
             THEN DoTransportError(logger, mi, parsed.url.Host, trimmedURL, out.err)
             ELSE DoFinished(logger, mi, parsed.url.Host, trimmedURL, out.resp, latency)

\* ------------------------------ restlogger.go: LoggingRoundTripper.RoundTrip

\* the resource-type vocabulary as the specification lists it
vocabulary ==
  << <<"resourcegroups">>, <<"storageaccounts">>,
     <<"operationresults">>, <<"asyncoperations">> >>

\* logging.GetMethodInfo(method, rawURL): the classifier of the specification,
\* section 4.1 steps 2-4
GetMethodInfo(method, rawURL) ==
  LET segs == Split(rawURL, "/")
      idx  == apiVersionIndex(segs)
      hit  == {k \in 1..Len(vocabulary) : idx > 0 /\ Contains(segs[idx], vocabulary[k])}
      tok  == IF hit # {}
              THEN vocabulary[CHOOSE k \in hit : \A j \in hit : k <= j]
              ELSE segs[idx]
  IN method \o <<" ">> \o (IF idx > 0 THEN getSuffix(method, tok) ELSE rawURL)

\* lines 21-35: Proxied.RoundTrip returned an error
RoundTripError(logger, mi, req, out) ==
  [log |-> << LogError(With(logger,
                 ("code" :> <<"na">>) @@ ("component" :> <<"client">>)
                   @@ ("time_ms" :> <<"na">>) @@ ("method" :> mi)
                   @@ ("service" :> req.Host) @@ ("source" :> <<"ApiAutoLog">>)
                   @@ ("protocol" :> <<"REST">>) @@ ("method_type" :> <<"unary">>)
                   @@ ("url" :> req.URL.Path) @@ ("error" :> out.err)),
               <<"error finishing call">>, NoArgs) >>,
   ret |-> [resp |-> out.resp, err |-> out.err]]

\* lines 37-50: the exchange completed with a response
RoundTripFinished(logger, mi, req, out, latency) ==
  [log |-> << LogInfo(With(logger,
                 ("code" :> out.resp[1].StatusCode) @@ ("component" :> <<"client">>)
                   @@ ("time_ms" :> latency) @@ ("method" :> mi)
                   @@ ("service" :> req.Host) @@ ("source" :> <<"ApiAutoLog">>)
                   @@ ("protocol" :> <<"REST">>) @@ ("method_type" :> <<"unary">>)
                   @@ ("url" :> req.URL.Path)),
               <<"finished call">>) >>,
   ret |-> [resp |-> out.resp, err |-> out.err]]

\* lines 16-51: what RoundTrip logs and returns, given what Proxied.RoundTrip
\* returned and the milliseconds elapsed since start
RoundTrip(logger, req, out, latency) ==
  LET mi == GetMethodInfo(req.Method, req.URL.Path)
  IN IF out.err # Empty
     THEN RoundTripError(logger, mi, req, out)
     ELSE RoundTripFinished(logger, mi, req, out, latency)

\* ------------------------------------------------------------------ inputs

Scheme == <<"https:">>

GoodHost == <<"management.azure.com">>

\* a host that URL.String() must escape, so that the string does not parse back
BadHost == <<"bad host">>

PathPrefix == <<"/", "subscriptions", "/", "s">>

Segments ==
  { <<"resourceGroups">>, <<"resourcegroups">>, <<"storageAccounts">>,
    <<"customResource">>, <<"acct">>, <<"api-version", "=", "version">> }

RECURSIVE TailsOfLen(_)
TailsOfLen(n) ==
  IF n = 0 THEN {Empty}
  ELSE {t \o <<"/">> \o sg : t \in TailsOfLen(n - 1), sg \in Segments}

Paths == {PathPrefix \o t : t \in UNION {TailsOfLen(n) : n \in 1..MaxTail}}

Params ==
  { <<"api-version", "=", "v">>, <<"api-version", "=", "a%20b">>,
    <<"$filter", "=", "x">> }

RECURSIVE QueriesOfLen(_)
QueriesOfLen(n) ==
  IF n = 0 THEN {Empty}
  ELSE IF n = 1 THEN Params
  ELSE {q \o <<"&">> \o pr : q \in QueriesOfLen(n - 1), pr \in Params}

RawQueries == UNION {QueriesOfLen(n) : n \in 0..MaxParams}

Methods == {<<"GET">>, <<"POST">>}

Request(method, host, path, rawQuery) ==
  [Method |-> method,
   URL    |-> [Scheme |-> Scheme, Host |-> host, Path |-> path, RawQuery |-> rawQuery],
   Host   |-> host]

\* the requests of SpecClassify
ClassifyRequests ==
  {Request(m, GoodHost, pa, q) : m \in Methods, pa \in Paths, q \in RawQueries}

StorageAccountPath == PathPrefix \o <<"/", "storageAccounts", "/", "acct">>

\* the requests of Spec
CallRequests ==
  { Request(<<"GET">>, GoodHost, StorageAccountPath, <<"api-version", "=", "v">>),
    Request(<<"POST">>, GoodHost, PathPrefix \o <<"/", "customResource">>,
            <<"$filter", "=", "x", "&", "api-version", "=", "v">>),
    Request(<<"GET">>, BadHost, StorageAccountPath, <<"api-version", "=", "v">>) }

StatusCodes == {200, 299, 300, 404}

TransportError == <<"connection refused">>

\* what the wrapped call returns: an error and no response, or a response
Outcomes ==
  {[resp |-> NilResp, err |-> TransportError]}
    \cup {[resp |-> Response(c), err |-> Empty] : c \in StatusCodes}

ClassifyOutcomes ==
  {[resp |-> NilResp, err |-> TransportError], [resp |-> Response(200), err |-> Empty]}

\* elapsed whole milliseconds, as time.Since(start).Milliseconds() reports them
Latencies == {25}

\* ------------------------------------------------------------------- state

\* sink:  the records written to the log sink, in order, each tagged with the
\*        invocation that wrote it
\* calls: the invocations; pc is "next" while the wrapped call is running and
\*        "done" once the interceptor has returned ret

NoOutcome == [resp |-> NilResp, err |-> Empty]

NewCall(adapter, req) ==
  [adapter |-> adapter, req |-> req, pc |-> "next", out |-> NoOutcome, ret |-> NoOutcome]

Tag(log, c) ==
  [i \in 1..Len(log) |->
     [call |-> c, level |-> log[i].level, msg |-> log[i].msg, fields |-> log[i].fields]]

Init ==
  /\ sink = <<>>
  /\ calls = <<>>

\* policy.go line 27-28: Do records startTime and calls req.Next
DoBegin(req) ==
  /\ Len(calls) < MaxCalls
  /\ calls' = Append(calls, NewCall("policy", req))
  /\ UNCHANGED sink

\* policy.go lines 28-115: req.Next returns out; Do classifies, logs, returns
DoEnd(c, out, latency) ==
  /\ c \in 1..Len(calls)
  /\ calls[c].adapter = "policy"
  /\ calls[c].pc = "next"
  /\ LET r == Do(policyLogger, calls[c].req, out, latency)
     IN /\ sink' = sink \o Tag(r.log, c)
        /\ calls' = [calls EXCEPT ![c] = [@ EXCEPT !.pc = "done", !.out = out, !.ret = r.ret]]

\* restlogger.go lines 17-19: RoundTrip records start and calls Proxied.RoundTrip
RoundTripBegin(req) ==
  /\ Len(calls) < MaxCalls
  /\ calls' = Append(calls, NewCall("roundtrip", req))
  /\ UNCHANGED sink

\* restlogger.go lines 19-50: Proxied.RoundTrip returns out; RoundTrip logs, returns
RoundTripEnd(c, out, latency) ==
  /\ c \in 1..Len(calls)
  /\ calls[c].adapter = "roundtrip"
  /\ calls[c].pc = "next"
  /\ LET r == RoundTrip(baseLogger, calls[c].req, out, latency)
     IN /\ sink' = sink \o Tag(r.log, c)
        /\ calls' = [calls EXCEPT ![c] = [@ EXCEPT !.pc = "done", !.out = out, !.ret = r.ret]]

Next ==
  \/ \E req \in CallRequests : DoBegin(req)
  \/ \E req \in CallRequests : RoundTripBegin(req)
  \/ \E c \in 1..MaxCalls, out \in Outcomes, latency \in Latencies : DoEnd(c, out, latency)
  \/ \E c \in 1..MaxCalls, out \in Outcomes, latency \in Latencies : RoundTripEnd(c, out, latency)

Spec == Init /\ [][Next]_vars

\* One Do invocation on a request drawn from ClassifyRequests
InitClassify ==
  /\ sink = <<>>
  /\ \E req \in ClassifyRequests : calls = <<NewCall("policy", req)>>

NextClassify ==
  \E out \in ClassifyOutcomes, latency \in Latencies : DoEnd(1, out, latency)

SpecClassify == InitClassify /\ [][NextClassify]_vars

\* ------------------------------------------------------------- properties

Done(c) == c \in 1..Len(calls) /\ calls[c].pc = "done"

EntriesOf(c) == {i \in 1..Len(sink) : sink[i].call = c}

\* the invocations of LoggingPolicy.Do that have returned with a record in the sink
LoggedDo == {c \in 1..Len(calls) : Done(c) /\ calls[c].adapter = "policy" /\ EntriesOf(c) # {}}

EntryOf(c) == sink[CHOOSE i \in EntriesOf(c) : TRUE]

\* the label ("method") and the normalized URL ("url") logged for invocation c
LabelOf(c) == EntryOf(c).fields["method"]

UrlOf(c) == EntryOf(c).fields["url"]

Is2xx(code) == 200 <= code /\ code < 300

OutcomeKind(out) ==
  IF out.err # Empty THEN "error"
  ELSE IF Is2xx(out.resp[1].StatusCode) THEN "2xx" ELSE "non2xx"

\* C1: every invocation of Do and of RoundTrip that has returned has written
\* exactly one record to the sink, whatever its outcome, and an invocation still
\* waiting for the wrapped call has written none.
C1_ExactlyOneEntryPerCall ==
  \A c \in 1..Len(calls) :
    Cardinality(EntriesOf(c)) = (IF calls[c].pc = "done" THEN 1 ELSE 0)

\* a Do whose URL did not parse and a RoundTrip that got a non-2xx response have
\* both returned
C1_Witness ==
  \E c \in 1..Len(calls), d \in 1..Len(calls) :
    /\ Done(c) /\ calls[c].adapter = "policy"
    /\ urlParse(URLString(calls[c].req.URL)).err # Empty
    /\ Done(d) /\ calls[d].adapter = "roundtrip"
    /\ OutcomeKind(calls[d].out) = "non2xx"

\* C2: when the wrapped call returns a response with status s and no error (and
\* the request URL parses), the record of the call is at Info iff 200 <= s < 300,
\* and is otherwise at Error with the status line under "error"; for both adapters.
C2_SeverityFollowsStatus ==
  \A i \in 1..Len(sink) :
    LET c == sink[i].call
        o == calls[c].out
    IN (/\ Done(c)
        /\ o.err = Empty
        /\ urlParse(URLString(calls[c].req.URL)).err = Empty)
       => /\ sink[i].level = "Info" <=> Is2xx(o.resp[1].StatusCode)
          /\ ~Is2xx(o.resp[1].StatusCode) =>
               /\ sink[i].level = "Error"
               /\ "error" \in DOMAIN sink[i].fields
               /\ sink[i].fields["error"] = o.resp[1].Status

\* C3: whenever the wrapped call returned an error, the interceptor returns that
\* same error, in every branch.
C3_ErrorReturnedUnchanged ==
  \A c \in 1..Len(calls) :
    (Done(c) /\ calls[c].out.err # Empty) => calls[c].ret.err = calls[c].out.err

\* C4: a Do and a RoundTrip on the same request (one whose URL parses) with the
\* same kind of transport outcome (error, 2xx, non-2xx) write records of the same
\* severity and the same key set.
C4_AdaptersAgree ==
  \A i \in 1..Len(sink), j \in 1..Len(sink) :
    LET c == sink[i].call
        d == sink[j].call
    IN (/\ calls[c].adapter = "policy"
        /\ calls[d].adapter = "roundtrip"
        /\ calls[c].req = calls[d].req
        /\ urlParse(URLString(calls[c].req.URL)).err = Empty
        /\ OutcomeKind(calls[c].out) = OutcomeKind(calls[d].out))
       => /\ sink[i].level = sink[j].level
          /\ DOMAIN sink[i].fields = DOMAIN sink[j].fields

EntryKeys == {"code", "component", "time_ms", "method", "service", "url", "error"}

\* C5: every record carries the keys code, component, time_ms, method, service,
\* url and error; in particular a record written by a failure branch (one at
\* Error) omits none of them.
C5_FailureKeepsKeys ==
  \A i \in 1..Len(sink) :
    sink[i].level = "Error" => EntryKeys \subseteq DOMAIN sink[i].fields

\* ---------------------------------------------- properties of the label

\* strings.ToLower on the words of the alphabet
ToLowerTok(t) ==
  CASE t = "resourceGroups"  -> "resourcegroups"
    [] t = "storageAccounts" -> "storageaccounts"
    [] t = "customResource"  -> "customresource"
    [] OTHER                 -> t

ToLower(s) == [i \in 1..Len(s) |-> ToLowerTok(s[i])]

\* the segments of the request URL as sent
RawSegments(req) == Split(URLString(req.URL), "/")

\* the vocabulary entries found, in any casing, in the segment that precedes the
\* api-version-bearing segment of the request URL
VocabularyHits(req) ==
  LET segs == RawSegments(req)
      idx  == apiVersionIndex(segs)
  IN IF idx > 0
     THEN {k \in 1..Len(vocabulary) : Contains(ToLower(segs[idx]), vocabulary[k])}
     ELSE {}

\* the path segments after /subscriptions/s
TailSegments(req) ==
  LET segs == Split(req.URL.Path, "/")
  IN SubSeq(segs, 4, Len(segs))

TypeSegments ==
  { <<"resourceGroups">>, <<"resourcegroups">>, <<"storageAccounts">>,
    <<"customResource">> }

NameSegments == { <<"acct">> }

\* a path that alternates resource types and resource names, type first
IsResourcePath(req) ==
  LET t == TailSegments(req)
  IN /\ Len(t) >= 1
     /\ \A i \in 1..Len(t) :
          IF i % 2 = 1 THEN t[i] \in TypeSegments ELSE t[i] \in NameSegments

\* the last path segment is a resource name
NameFollowsType(req) == Len(TailSegments(req)) % 2 = 0

HasApiVersionQuery(req) ==
  \E i \in 1..Len(Split(req.URL.RawQuery, "&")) :
    ParsePair(Split(req.URL.RawQuery, "&")[i]).key = ApiVersionKey

EndsWith(s, t) == Len(s) >= 1 /\ s[Len(s)] = t

\* C6: when the segment before the api-version-bearing segment of a resource
\* path holds a vocabulary token in any casing, the label is the verb, a space,
\* and that vocabulary entry in lower case (followed, for GET, by the suffix).
C6_TokenIsLowerCaseVocabulary ==
  \A c \in LoggedDo :
    LET req  == calls[c].req
        hits == VocabularyHits(req)
    IN (IsResourcePath(req) /\ hits # {}) =>
         /\ Len(LabelOf(c)) >= 3
         /\ SubSeq(LabelOf(c), 1, 3) =
              req.Method \o <<" ">> \o vocabulary[CHOOSE k \in hits : \A j \in hits : k <= j]

\* C7: for a GET whose api-version-bearing segment is found, the label ends in
\* " - READ" iff a resource name follows the resource type, and in " - LIST"
\* otherwise, with nothing of the query left in it; an unrecognized type
\* followed by a name gives GET <customType> - READ.
C7_ReadIffNameFollows ==
  \A c \in LoggedDo :
    LET req == calls[c].req
        t   == TailSegments(req)
    IN (/\ req.Method = <<"GET">>
        /\ IsResourcePath(req)
        /\ HasApiVersionQuery(req))
       => /\ EndsWith(LabelOf(c), " - READ") <=> NameFollowsType(req)
          /\ ~NameFollowsType(req) => EndsWith(LabelOf(c), " - LIST")
          /\ ~ContainsAny(LabelOf(c), {"?", "/"})
          /\ (NameFollowsType(req) /\ t[Len(t) - 1] = <<"customResource">>)
               => LabelOf(c) = <<"GET", " ", "customResource", " - READ">>

\* C8: a request URL with no query string and no segment containing api-version
\* is labelled with the verb, a space and the full URL, without suffix.
C8_WholeURLFallback ==
  \A c \in LoggedDo :
    LET req == calls[c].req
    IN (/\ req.URL.RawQuery = Empty
        /\ ~Contains(URLString(req.URL), ApiVersionKey))
       => LabelOf(c) = req.Method \o <<" ">> \o URLString(req.URL)

\* C9: the label of a non-GET request (with api-version in its query) carries no
\* " - LIST" or " - READ" suffix, and nothing of the query string follows the
\* resource type token.
C9_NonGetBareToken ==
  \A c \in LoggedDo :
    LET req == calls[c].req
    IN (req.Method # <<"GET">> /\ HasApiVersionQuery(req))
       => /\ ~EndsWith(LabelOf(c), " - LIST")
          /\ ~EndsWith(LabelOf(c), " - READ")
          /\ ~ContainsAny(LabelOf(c), {"?", "=", "&"})

\* the positions of the api-version parameters in the raw query of the request
ApiVersionPairs(req) ==
  LET ps == Split(req.URL.RawQuery, "&")
  IN {i \in 1..Len(ps) : ParsePair(ps[i]).key = ApiVersionKey}

\* the same request carrying only its api-version parameter
OnlyApiVersion(req) ==
  LET ps == Split(req.URL.RawQuery, "&")
  IN [req EXCEPT !.URL.RawQuery = ps[CHOOSE i \in ApiVersionPairs(req) : TRUE]]

\* C10: whatever other query parameters accompany api-version, the normalized
\* URL carries exactly one parameter, api-version, with the value the request
\* gave it, and the label and the normalized URL are those of the same request
\* carrying api-version alone.
C10_TrimKeepsOnlyApiVersion ==
  \A c \in LoggedDo :
    LET req == calls[c].req
    IN Cardinality(ApiVersionPairs(req)) = 1 =>
         LET norm == urlParse(UrlOf(c)).url
             q    == Query(norm)
             only == OnlyApiVersion(req)
             ref  == trimURL(urlParse(URLString(only.URL)).url)
         IN /\ Len(Split(norm.RawQuery, "&")) = 1
            /\ DOMAIN q = {ApiVersionKey}
            /\ q[ApiVersionKey] = <<Get(Query(only.URL), ApiVersionKey)>>
            /\ UrlOf(c) = ref
            /\ LabelOf(c) = methodInfo(only.Method, ref)

\* a Do has logged a request whose api-version sits between two other parameters
C10_Witness ==
  \E c \in LoggedDo :
    /\ calls[c].req.URL.RawQuery =
         <<"$filter", "=", "x", "&", "api-version", "=", "a%20b", "&", "$filter", "=", "x">>
    /\ urlParse(UrlOf(c)).url.RawQuery = <<"api-version", "=", "a+b">>

====
